---------------------------- MODULE Spec2Model ----------------------------
(***************************************************************************)
(* The notebooks of stats-ml-toolkit as kernel sessions.                   *)
(*                                                                         *)
(* Each notebook runs in a kernel of its own: a namespace of global names  *)
(* that the code cells read and write, cells being executed one at a time  *)
(* in any order, any number of times.  One action models one code cell,    *)
(* from its first statement to its last (or to the statement that raises). *)
(*                                                                         *)
(*   est  inferential_statistics.ipynb  (point estimate, interval,         *)
(*        hypothesis test on the healthcare data)                          *)
(*   tt   the t-test notebook           (one-sample, two-sample, paired)   *)
(*   fx   the Fisher's exact test notebook                                 *)
(*                                                                         *)
(* Numbers.  The floating-point values of the code are modelled by exact   *)
(* rationals: a ratio is a record [num, den]; a non-negative real known by *)
(* its square (a standard deviation, a margin of error) is the ratio of    *)
(* its square; a t statistic is its sign and the ratio of its square, or   *)
(* one of the IEEE specials nan / inf that numpy's division produces.      *)
(***************************************************************************)
EXTENDS Integers, Sequences, FiniteSets, TLC

VARIABLES
    rng,        \* numpy's global generator: the seed it was last given and the draws made since
    given,      \* the data outside the cells' logic: files, downloads, the seeded draws, the literals
    est,        \* the namespace of the estimation notebook's kernel
    tt,         \* the namespace of the t-test notebook's kernel
    fx,         \* the namespace of the Fisher notebook's kernel
    stdout,     \* what the cell executed last printed
    error,      \* the exception the cell executed last ended with, or NoError
    cell,       \* the cell executed last
    calls,      \* the library tests the cell executed last invoked, in order
    produced    \* the intervals the interval cell has produced in this session (history)

vars == <<rng, given, est, tt, fx, stdout, error, cell, calls, produced>>

-----------------------------------------------------------------------------
(* Bounds of the model *)

\* the number of values one draw of the sample holds (sample_size is 30 in the code)
SampleSize == 3
\* the values a drawn daily-active-users count ranges over: 1 .. MaxDau
MaxDau == 3

-----------------------------------------------------------------------------
(* Arithmetic *)

RECURSIVE SumSeq(_)
SumSeq(s) == IF s = <<>> THEN 0 ELSE Head(s) + SumSeq(Tail(s))

RECURSIVE SumSqSeq(_)
SumSqSeq(s) == IF s = <<>> THEN 0 ELSE Head(s) * Head(s) + SumSqSeq(Tail(s))

\* n * (sum of squared deviations from the mean) = n * sum(x^2) - (sum x)^2
DevSq(s) == Len(s) * SumSqSeq(s) - SumSeq(s) * SumSeq(s)

Ratio(n, d) == [num |-> n, den |-> d]

RECURSIVE GCD(_, _)
GCD(a, b) == IF b = 0 THEN a ELSE GCD(b, a % b)

\* a/b <= c/d, a/b < c/d for ratios of non-negative numerators and positive
\* denominators; the factors the two share are cancelled before the products
\* are taken, which keeps them small
RatLe(a, b) ==
    LET g == IF GCD(a.num, b.num) = 0 THEN 1 ELSE GCD(a.num, b.num)
        h == GCD(a.den, b.den)
    IN  (a.num \div g) * (b.den \div h) <= (b.num \div g) * (a.den \div h)
RatLt(a, b) ==
    LET g == IF GCD(a.num, b.num) = 0 THEN 1 ELSE GCD(a.num, b.num)
        h == GCD(a.den, b.den)
    IN  (a.num \div g) * (b.den \div h) < (b.num \div g) * (a.den \div h)

\* the largest k with k*k*den <= num : floor(sqrt(num/den))
RECURSIVE FloorSqrtFrom(_, _)
FloorSqrtFrom(q, k) ==
    IF (k + 1) * (k + 1) * q.den <= q.num THEN FloorSqrtFrom(q, k + 1) ELSE k
FloorSqrt(q) == FloorSqrtFrom(q, 0)

\* the smallest k with k*k*den >= num : ceil(sqrt(num/den))
CeilSqrt(q) ==
    LET f == FloorSqrt(q) IN IF f * f * q.den = q.num THEN f ELSE f + 1

\* sqrt(q) >= r and sqrt(q) > r, for a ratio q >= 0 and a ratio r of positive denominator
SqrtGe(q, r) == r.num <= 0 \/ r.num * r.num * q.den <= q.num * r.den * r.den
SqrtGt(q, r) == r.num < 0 \/ r.num * r.num * q.den < q.num * r.den * r.den

-----------------------------------------------------------------------------
(* pandas: a DataFrame is the sequence of its rows, a row a function from  *)
(* column names to values                                                  *)

DataFrame(data, column) == [i \in 1..Len(data) |-> [c \in {column} |-> data[i]]]

Column(frame, c) == [i \in 1..Len(frame) |-> frame[i][c]]

\* Series.mean(): the sum over the count, as a ratio
SeriesMean(s) == Ratio(SumSeq(s), Len(s))

\* Series.std(): the sample standard deviation (ddof = 1), by its square
\* sum((x - mean)^2) / (n - 1) = DevSq / (n * (n - 1))
SeriesStd(s) == Ratio(DevSq(s), Len(s) * (Len(s) - 1))

\* .astype(int) of a non-negative float: the fraction is cut off
AsTypeInt(r) == r.num \div r.den

-----------------------------------------------------------------------------
(* numpy.random: the global generator *)

Seed42 == 42

\* the generator of a fresh kernel: seeded by nobody, started from the system's entropy
FreshGenerator == [seeded |-> FALSE, seed |-> 0, pos |-> 0]

\* a seeding that takes effect on a generator not yet seeded only
np_random_seed_once(r, s) == IF r.seeded THEN r ELSE [seeded |-> TRUE, seed |-> s, pos |-> 0]

\* np.random.seed(s): the generator restarts the stream of seed s
np_random_seed(r, s) == [seeded |-> TRUE, seed |-> s, pos |-> 0]

\* the samples one randint(1000, 5000, size=sample_size) call can return
Samples == [1..SampleSize -> 1..MaxDau]

\* a draw that the seed does not determine
RandintReturnsAny(r, known, s) == s \in Samples

\* np.random.randint: the draw at the generator's position.  After seed(42) the
\* draw at a position is always the same one (known: the draws of that stream, in
\* order, as far as the session fixes them); a generator that was never seeded
\* started from the system's entropy and may return anything.
RandintReturns(r, known, s) ==
    /\ s \in Samples
    /\ (r.seeded /\ r.seed = Seed42 /\ r.pos < Len(known)) => s = known[r.pos + 1]

AfterRandint(r) == [r EXCEPT !.pos = r.pos + 1]

-----------------------------------------------------------------------------
(* scipy.stats: the t statistics.  A statistic is sign * sqrt(num / den),  *)
(* or what numpy's division makes of a zero denominator: nan for 0/0, an   *)
(* infinity of the numerator's sign for x/0.                               *)

Sign(x) == IF x > 0 THEN 1 ELSE IF x < 0 THEN -1 ELSE 0

NaN == [kind |-> "nan", sign |-> 0, num |-> 0, den |-> 1]

\* np.divide(numerator, denominator) of a numerator of sign sgn and square
\* numSq by a denominator >= 0 of square denSq
np_divide(sgn, numSq, denSq) ==
    IF denSq = 0
    THEN IF numSq = 0 THEN NaN ELSE [kind |-> "inf", sign |-> sgn, num |-> 0, den |-> 1]
    ELSE [kind |-> "finite", sign |-> sgn, num |-> numSq, den |-> denSq]

\* the two-tailed probability of a Student t of df degrees of freedom beyond
\* |t|, kept as the pair it is a function of
t_sf_two_tailed(t, df) == [kind |-> t.kind, num |-> t.num, den |-> t.den, df |-> df]

\* a statistic or a probability as print shows it: rounded as fmt says
Formatted(fmt, v) == [fmt |-> fmt, of |-> v]

\* a pooled statistic of the first mean alone
PooledTTestOfFirstMean(a, b) ==
    LET n1 == Len(a)
        n2 == Len(b)
        diff == SumSeq(a) * n2
        t  == IF n1 < 2 \/ n2 < 2 THEN NaN
              ELSE np_divide(Sign(diff), diff * diff * (n1 + n2 - 2),
                             (DevSq(a) * n2 + DevSq(b) * n1) * (n1 + n2))
        df == Ratio(n1 + n2 - 2, 1)
    IN  [statistic |-> t, pvalue |-> t_sf_two_tailed(t, df), df |-> df]

\* ttest_ind(a, b, equal_var=True): the pooled test.
\*   df = n1 + n2 - 2,  svar = ((n1-1) v1 + (n2-1) v2) / df,
\*   t = (mean1 - mean2) / sqrt(svar * (1/n1 + 1/n2))
\* The variance (ddof = 1) of fewer than two values is nan, and so is t.
PooledTTest(a, b) ==
    LET n1 == Len(a)
        n2 == Len(b)
        diff == SumSeq(a) * n2 - SumSeq(b) * n1          \* n1 n2 (mean1 - mean2)
        t  == IF n1 < 2 \/ n2 < 2 THEN NaN
              ELSE np_divide(Sign(diff), diff * diff * (n1 + n2 - 2),
                             (DevSq(a) * n2 + DevSq(b) * n1) * (n1 + n2))
        df == Ratio(n1 + n2 - 2, 1)
    IN  [statistic |-> t, pvalue |-> t_sf_two_tailed(t, df), df |-> df]

\* ttest_ind(a, b, equal_var=False): Welch's test.
\*   vn1 = v1 / n1, vn2 = v2 / n2,  t = (mean1 - mean2) / sqrt(vn1 + vn2),
\*   df = (vn1 + vn2)^2 / (vn1^2 / (n1-1) + vn2^2 / (n2-1)), and 1 where that is nan
WelchTTest(a, b) ==
    LET n1 == Len(a)
        n2 == Len(b)
        diff == SumSeq(a) * n2 - SumSeq(b) * n1
        A  == DevSq(a) * n2 * n2 * (n2 - 1)              \* vn1, over n1^2 n2^2 (n1-1)(n2-1)
        B  == DevSq(b) * n1 * n1 * (n1 - 1)              \* vn2, over the same
        t  == IF n1 < 2 \/ n2 < 2 THEN NaN
              ELSE np_divide(Sign(diff), diff * diff * (n1 - 1) * (n2 - 1), A + B)
        df == IF n1 < 2 \/ n2 < 2 \/ A + B = 0 THEN Ratio(1, 1)
              ELSE Ratio((A + B) * (A + B) * (n1 - 1) * (n2 - 1),
                         A * A * (n2 - 1) + B * B * (n1 - 1))
    IN  [statistic |-> t, pvalue |-> t_sf_two_tailed(t, df), df |-> df]

ttest_ind(a, b, equal_var) == IF equal_var THEN PooledTTest(a, b) ELSE WelchTTest(a, b)

\* the record of one invocation, for the history
TTestIndCall(a, b, equal_var) ==
    [fn |-> "ttest_ind", a |-> a, b |-> b, equal_var |-> equal_var]

\* stats.levene(a, b): the p-value is the library's, a function of the two
\* samples that the session's data fixes; nan when the test is undefined
LeveneCall(a, b, p) == [fn |-> "levene", a |-> a, b |-> b, pvalue |-> p]

\* the differences taken the other way: b - a
DifferencesReversed(a, b) == [i \in 1..Len(a) |-> b[i] - a[i]]

\* a - b, element by element, of two sequences of one length
Differences(a, b) == [i \in 1..Len(a) |-> a[i] - b[i]]

\* a one-sample test of the mean against zero, whatever popmean is
ttest_1samp_against_zero(a, popmean) ==
    LET n == Len(a)
        d == SumSeq(a)
        t == IF n < 2 THEN NaN ELSE np_divide(Sign(d), d * d * (n - 1), DevSq(a))
        df == Ratio(n - 1, 1)
    IN  [statistic |-> t, pvalue |-> t_sf_two_tailed(t, df), df |-> df]

\* ttest_1samp(a, popmean): t = (mean - popmean) / sqrt(v / n), df = n - 1
ttest_1samp(a, popmean) ==
    LET n == Len(a)
        d == SumSeq(a) - n * popmean                     \* n (mean - popmean)
        t == IF n < 2 THEN NaN ELSE np_divide(Sign(d), d * d * (n - 1), DevSq(a))
        df == Ratio(n - 1, 1)
    IN  [statistic |-> t, pvalue |-> t_sf_two_tailed(t, df), df |-> df]

\* a paired test that takes the variance of the differences with ddof = 0
ttest_rel_ddof0(a, b) ==
    LET d == Differences(a, b)
        n == Len(d)
        t == IF n < 2 THEN NaN
             ELSE np_divide(Sign(SumSeq(d)), SumSeq(d) * SumSeq(d) * n, DevSq(d))
        df == Ratio(n - 1, 1)
    IN  [statistic |-> t, pvalue |-> t_sf_two_tailed(t, df), df |-> df]

\* ttest_rel(a, b) of two sequences of one length: with d = a - b,
\*   t = mean(d) / sqrt(var(d, ddof=1) / n), df = n - 1
\* the division made under np.errstate(divide='ignore', invalid='ignore')
ttest_rel(a, b) ==
    LET d == Differences(a, b)
        n == Len(d)
        t == IF n < 2 THEN NaN
             ELSE np_divide(Sign(SumSeq(d)), SumSeq(d) * SumSeq(d) * (n - 1), DevSq(d))
        df == Ratio(n - 1, 1)
    IN  [statistic |-> t, pvalue |-> t_sf_two_tailed(t, df), df |-> df]

TTestRelCall(a, b) == [fn |-> "ttest_rel", a |-> a, b |-> b]
TTest1SampCall(a, popmean) == [fn |-> "ttest_1samp", a |-> a, popmean |-> popmean]

-----------------------------------------------------------------------------
(* The healthcare data: data/healthcare_dataset.csv, by the three columns  *)
(* the notebook uses.  A date 'YYYY-MM-DD' is the sequence of its three    *)
(* numbers; strings of that form compare as those sequences do.  A field   *)
(* the file leaves empty is read as NaN.                                   *)

\* the number of records of the file
MaxRows == 1
\* the billing amounts: 1 .. MaxBill
MaxBill == 2

StrLt(a, b) ==
    \/ a[1] < b[1]
    \/ a[1] = b[1] /\ a[2] < b[2]
    \/ a[1] = b[1] /\ a[2] = b[2] /\ a[3] < b[3]

\* the NaN of an admission date that the file does not give
MissingDate == <<>>

\* a comparison that holds of the start date itself
SeriesLe(a, b) == a # MissingDate /\ (StrLt(a, b) \/ a = b)

\* series < string and series >= string, at one row: a comparison with NaN is False
SeriesLt(a, b) == a # MissingDate /\ StrLt(a, b)
SeriesGe(a, b) == a # MissingDate /\ ~StrLt(a, b)

TreatmentStartDate == <<2022, 1, 1>>

AdmissionDates == {<<2021, 12, 31>>, <<2022, 1, 1>>, <<2022, 1, 2>>}
MedicalConditions == {"Hypertension", "Diabetes"}

CsvColumns == {"Medical Condition", "Date of Admission", "Billing Amount"}

CsvRecord(c, d, b) ==
    [k \in CsvColumns |->
        CASE k = "Medical Condition" -> c
          [] k = "Date of Admission" -> d
          [] k = "Billing Amount" -> b]

CsvRecords ==
    {CsvRecord(c, d, b) : c \in MedicalConditions,
                          d \in AdmissionDates \cup {MissingDate}, b \in 1..MaxBill}

HealthcareFiles == UNION {[1..n -> CsvRecords] : n \in 0..MaxRows}

\* a file with two hypertension patients before the start date, two from it
\* on and one of no date
ExampleHealthcareFile ==
    << CsvRecord("Hypertension", <<2021, 12, 31>>, 1),
       CsvRecord("Diabetes",     <<2021, 12, 31>>, 2),
       CsvRecord("Hypertension", <<2022, 1, 1>>, 2),
       CsvRecord("Hypertension", <<2021, 12, 31>>, 2),
       CsvRecord("Hypertension", <<2022, 1, 2>>, 1),
       CsvRecord("Hypertension", MissingDate, 2) >>

\* the new names df.rename gives the columns
Renamed(k) ==
    CASE k = "Medical Condition" -> "medical_condition"
      [] k = "Date of Admission" -> "admission_date"
      [] k = "Billing Amount" -> "bill_amount"
      [] OTHER -> k

\* df.rename(columns=..., inplace=True): the frame itself, its columns renamed
Rename(frame) ==
    [i \in 1..Len(frame) |->
        [c \in {Renamed(k) : k \in DOMAIN frame[i]} |->
            frame[i][CHOOSE k \in DOMAIN frame[i] : Renamed(k) = c]]]

\* frame[mask]: the rows at which the boolean series mask is true, in order
RECURSIVE Where(_, _)
Where(frame, mask) ==
    IF frame = <<>> THEN <<>>
    ELSE (IF Head(mask) THEN <<Head(frame)>> ELSE <<>>) \o Where(Tail(frame), Tail(mask))

-----------------------------------------------------------------------------
(* Reals of the forms the cells compute *)

\* base + sign * sqrt(root), sign being -1 or 1
Offset(base, sign, root) == [base |-> base, sign |-> sign, root |-> root]

\* math.floor of such a value
MathFloor(v) ==
    IF v.sign = 1 THEN v.base + FloorSqrt(v.root) ELSE v.base - CeilSqrt(v.root)

\* v <= r and r <= v, for a ratio r of positive denominator
OffsetLe(v, r) ==
    LET gap == Ratio(r.num - v.base * r.den, r.den)     \* r - base
    IN  IF v.sign = 1 THEN ~SqrtGt(v.root, gap)
        ELSE SqrtGe(v.root, Ratio(-gap.num, gap.den))
OffsetGe(v, r) ==
    LET gap == Ratio(r.num - v.base * r.den, r.den)     \* r - base
    IN  IF v.sign = 1 THEN SqrtGe(v.root, gap)
        ELSE ~SqrtGt(v.root, Ratio(-gap.num, gap.den))

-----------------------------------------------------------------------------
(* scipy.stats.norm.ppf: the two-tailed critical values, in hundredths     *)
(* (1.6449, 1.9600, 2.5758 rounded; the notebook names 1.96 for 95%)       *)

ZScale == 100
Z90 == 164
Z95 == 196
Z99 == 258

\* the confidence levels (in percent) the interval cell is run with; the code
\* as written assumes 95, norm.ppf(0.975)
ConfidenceLevels == {90, 95, 99}

norm_ppf_two_tailed(level) ==
    CASE level = 90 -> Ratio(Z90, ZScale)
      [] level = 95 -> Ratio(Z95, ZScale)
      [] level = 99 -> Ratio(Z99, ZScale)

-----------------------------------------------------------------------------
(* The estimation notebook: inferential_statistics.ipynb *)

NoError == "none"

EstFresh ==
    [ names |-> {},
      sample_size |-> 0,
      dau_sample |-> <<>>,
      df |-> <<>>,
      sample_mean |-> 0,
      level |-> 0,
      z_score |-> Ratio(0, 1),
      std_dev |-> Ratio(0, 1),
      margin_of_error |-> Ratio(0, 1),
      confidence_interval |-> <<>>,
      floored_confidence_interval |-> <<>>,
      treatment_start_date |-> <<>>,
      df_hypertension |-> <<>>,
      df_before |-> <<>>,
      df_after |-> <<>>,
      mean_before |-> Ratio(0, 1),
      mean_after |-> Ratio(0, 1),
      t_stat |-> NaN,
      p_value |-> NaN ]

\* df['daily_active_users'].mean().astype(int)
SampleMean(frame) == AsTypeInt(SeriesMean(Column(frame, "daily_active_users")))

\* a margin of error that leaves the critical value out: std_dev / np.sqrt(sample_size)
MarginOfErrorWithoutZ(z, sd, n) == Ratio(sd.num, sd.den * n)

\* z_score * (std_dev / np.sqrt(sample_size)), by its square
MarginOfError(z, sd, n) == Ratio(z.num * z.num * sd.num, z.den * z.den * sd.den * n)

\* (sample_mean - margin_of_error, sample_mean + margin_of_error)
ConfidenceInterval(mean, moe) == <<Offset(mean, -1, moe), Offset(mean, 1, moe)>>

\* (math.floor(confidence_interval[0]), math.floor(confidence_interval[1]))
Floored(ci) == <<MathFloor(ci[1]), MathFloor(ci[2])>>

\* The point-estimation cell
PointEstimationCell ==
    \E s \in Samples :
        /\ RandintReturns(np_random_seed(rng, Seed42), given.seeded_draws, s)
        /\ rng' = AfterRandint(np_random_seed(rng, Seed42))
        /\ LET frame == DataFrame(s, "daily_active_users")
               mean == SampleMean(frame)
           IN  /\ est' = [est EXCEPT
                            !.names = @ \cup {"sample_size", "dau_sample", "df", "sample_mean"},
                            !.sample_size = SampleSize,
                            !.dau_sample = s,
                            !.df = frame,
                            !.sample_mean = mean]
               /\ stdout' = <<[text |-> "The point estimate for the average daily active users is: ",
                               value |-> mean]>>
        /\ error' = NoError
        /\ cell' = "point"
        /\ calls' = <<>>
        /\ UNCHANGED <<given, tt, fx, produced>>

\* The interval-estimation cell, run for a confidence level.  It reads
\* sample_mean, which it does not define: in a kernel where the name is not
\* bound the cell ends there with a NameError, its earlier assignments made.
IntervalEstimationCell ==
    \E s \in Samples, level \in ConfidenceLevels :
        /\ RandintReturns(np_random_seed(rng, Seed42), given.seeded_draws, s)
        /\ rng' = AfterRandint(np_random_seed(rng, Seed42))
        /\ LET frame == DataFrame(s, "daily_active_users")
               z  == norm_ppf_two_tailed(level)
               sd == SeriesStd(Column(frame, "daily_active_users"))
               moe == MarginOfError(z, sd, SampleSize)
               upto135 == [est EXCEPT
                            !.names = @ \cup {"sample_size", "dau_sample", "df", "z_score",
                                              "std_dev", "margin_of_error"},
                            !.sample_size = SampleSize,
                            !.dau_sample = s,
                            !.df = frame,
                            !.level = level,
                            !.z_score = z,
                            !.std_dev = sd,
                            !.margin_of_error = moe]
               ci == ConfidenceInterval(est.sample_mean, moe)
           IN  IF "sample_mean" \notin est.names
               THEN /\ est' = upto135
                    /\ error' = "NameError"
                    /\ stdout' = <<>>
                    /\ produced' = produced
               ELSE /\ est' = [upto135 EXCEPT
                                 !.names = @ \cup {"confidence_interval",
                                                   "floored_confidence_interval"},
                                 !.confidence_interval = ci,
                                 !.floored_confidence_interval = Floored(ci)]
                    /\ error' = NoError
                    /\ stdout' = <<[text |-> "The 95% confidence interval for the average daily active users is: ",
                                    value |-> Floored(ci)]>>
                    /\ produced' = produced \cup
                           {[level |-> level, sample |-> s, z_score |-> z, std_dev |-> sd,
                             confidence_interval |-> ci,
                             floored_confidence_interval |-> Floored(ci)]}
        /\ cell' = "interval"
        /\ calls' = <<>>
        /\ UNCHANGED <<given, tt, fx>>

\* the flag the hypothesis-testing cell passes to ttest_ind: equal_var=False
HypothesisEqualVar == FALSE

\* The hypothesis-testing cell
HypothesisTestingCell ==
    \E df0 \in {Rename(given.healthcare_csv)} :
    \E df_hypertension \in
          {Where(df0, [i \in DOMAIN df0 |-> df0[i]["medical_condition"] = "Hypertension"])} :
    \E df_before \in
          {Where(df_hypertension, [i \in DOMAIN df_hypertension |->
               SeriesLt(df_hypertension[i]["admission_date"], TreatmentStartDate)])} :
    \E df_after \in
          {Where(df_hypertension, [i \in DOMAIN df_hypertension |->
               SeriesGe(df_hypertension[i]["admission_date"], TreatmentStartDate)])} :
    LET before == Column(df_before, "bill_amount")
        after  == Column(df_after, "bill_amount")
        test == ttest_ind(before, after, HypothesisEqualVar)
    IN  /\ est' = [est EXCEPT
                     !.names = @ \cup {"df", "treatment_start_date", "df_hypertension",
                                       "df_before", "df_after", "mean_before", "mean_after",
                                       "t_stat", "p_value"},
                     !.df = df0,
                     !.treatment_start_date = TreatmentStartDate,
                     !.df_hypertension = df_hypertension,
                     !.df_before = df_before,
                     !.df_after = df_after,
                     !.mean_before = SeriesMean(before),
                     !.mean_after = SeriesMean(after),
                     !.t_stat = test.statistic,
                     !.p_value = test.pvalue]
        /\ calls' = <<TTestIndCall(before, after, HypothesisEqualVar)>>
        /\ stdout' = << [text |-> "Mean Billing Amount Before Treatment: ",
                         value |-> SeriesMean(before)],
                        [text |-> "Mean Billing Amount After Treatment: ",
                         value |-> SeriesMean(after)],
                        [text |-> "T-statistic: , P-value: ",
                         value |-> << Formatted("round4", test.statistic),
                                      Formatted("round4", test.pvalue) >>] >>
        /\ error' = NoError
        /\ cell' = "hypothesis"
        /\ UNCHANGED <<rng, given, tt, fx, produced>>

-----------------------------------------------------------------------------
(* The t-test notebook *)

\* the longest sample of the t-test notebook
MaxLen == 2
\* its values: 1 .. MaxVal
MaxVal == 2

TestSamples == UNION {[1..n -> 1..MaxVal] : n \in 0..MaxLen}

\* the longest sample of ratings
MaxRatings == 3
\* the ratings, and the targets they are tested against: 1 .. MaxRating
MaxRating == 3

RatingSamples == UNION {[1..n -> 1..MaxRating] : n \in 0..MaxRatings}

\* five ratings whose mean is the third
FiveRatings == <<1, 2, 3, 4, 5>>

\* p-values are in hundredths
Alpha == 5

Finite(v) == [kind |-> "finite", value |-> v]
LevenePValues ==
    {Finite(0), Finite(Alpha), Finite(Alpha + 1), Finite(100), [kind |-> "nan", value |-> 0]}

\* iris.csv, by the two columns the notebook uses: the rows of the two species
\* whose sepal widths are compared, and one of the third
IrisFrame(setosa, versicolor) ==
    [i \in 1..Len(setosa) |-> [species |-> "setosa", sepal_width |-> setosa[i]]]
    \o [i \in 1..Len(versicolor) |-> [species |-> "versicolor", sepal_width |-> versicolor[i]]]
    \o <<[species |-> "virginica", sepal_width |-> 1]>>

TtFresh ==
    [ names |-> {},
      user_ratings |-> <<>>,
      target_mean |-> 0,
      iris |-> <<>>,
      setosa |-> <<>>,
      versicolor |-> <<>>,
      p |-> Finite(0),
      time_before |-> <<>>,
      time_after |-> <<>>,
      df |-> <<>>,
      t_stat |-> NaN,
      p_value |-> NaN ]

\* The one-sample t-test cell.  user_ratings is the seeded normal draw; the
\* ages and engagement levels drawn after it enter no computation.
OneSampleTTestCell ==
    LET user_ratings == given.user_ratings
        test == ttest_1samp(user_ratings, given.target_mean)
    IN  /\ rng' = AfterRandint(AfterRandint(AfterRandint(np_random_seed(rng, Seed42))))
        /\ tt' = [tt EXCEPT
                    !.names = @ \cup {"user_ratings", "df_user_experience", "target_mean",
                                      "t_stat", "p_value"},
                    !.user_ratings = user_ratings,
                    !.target_mean = given.target_mean,
                    !.t_stat = test.statistic,
                    !.p_value = test.pvalue]
        /\ calls' = <<TTest1SampCall(user_ratings, given.target_mean)>>
        /\ stdout' = << [text |-> "T-statistic: ", value |-> Formatted(".4f", test.statistic)],
                        [text |-> "P-value: ", value |-> Formatted(".4e", test.pvalue)] >>
        /\ error' = NoError
        /\ cell' = "one_sample"
        /\ UNCHANGED <<given, est, fx, produced>>

\* the decision of the two-sample cell that looks at the boundary the other way
EqualVarAtOrAboveAlpha(p) == p.kind = "finite" /\ p.value >= Alpha

\* if p > 0.05: the variances are taken to be equal
EqualVarDecision(p) == p.kind = "finite" /\ p.value > Alpha

\* the flag of the if branch: ttest_ind(setosa, versicolor, equal_var=True)
PooledFlag == TRUE

\* an else branch that assumes equal variances too
WelchFlagLeftTrue == TRUE

\* the flag of the else branch: ttest_ind(setosa, versicolor, equal_var=False)
WelchFlag == FALSE

\* the flag the two-sample cell passes to ttest_ind in the branch it takes
TwoSampleEqualVar(p) == IF EqualVarDecision(p) THEN PooledFlag ELSE WelchFlag

\* The two-sample t-test cell
TwoSampleTTestCell ==
    LET iris == given.iris
        setosa == Column(Where(iris, [i \in DOMAIN iris |-> iris[i].species = "setosa"]),
                         "sepal_width")
        versicolor == Column(Where(iris, [i \in DOMAIN iris |-> iris[i].species = "versicolor"]),
                             "sepal_width")
        p == given.levene_p
        test == ttest_ind(setosa, versicolor, TwoSampleEqualVar(p))
    IN  /\ tt' = [tt EXCEPT
                    !.names = @ \cup {"iris", "setosa", "versicolor", "stat", "p",
                                      "t_stat", "p_value"},
                    !.iris = iris,
                    !.setosa = setosa,
                    !.versicolor = versicolor,
                    !.p = p,
                    !.t_stat = test.statistic,
                    !.p_value = test.pvalue]
        /\ calls' = << LeveneCall(setosa, versicolor, p),
                       TTestIndCall(setosa, versicolor, TwoSampleEqualVar(p)) >>
        /\ stdout' = << [text |-> "Sample size for Setosa: ", value |-> Len(setosa)],
                        [text |-> "Sample size for Versicolor: ", value |-> Len(versicolor)],
                        [text |-> "Levene's test for equal variances: P-value=",
                         value |-> Formatted(".4f", p)],
                        [text |-> IF EqualVarDecision(p)
                                  THEN "Assumption of equal variances is reasonable."
                                  ELSE "Assumption of equal variances is not reasonable.",
                         value |-> <<>>],
                        [text |-> IF EqualVarDecision(p) THEN "T-statistic: "
                                  ELSE "Welch's T-statistic: ",
                         value |-> Formatted("round4", test.statistic)],
                        [text |-> "P-value: ", value |-> Formatted(".2e", test.pvalue)] >>
        /\ error' = NoError
        /\ cell' = "two_sample"
        /\ UNCHANGED <<rng, given, est, fx, produced>>

\* The paired t-test cell.  pd.DataFrame of two columns of different lengths
\* raises ValueError; the two lists are bound by then.
PairedTTestCell ==
    LET time_before == given.time_before
        time_after == given.time_after
        lists == [tt EXCEPT
                    !.names = @ \cup {"time_before", "time_after"},
                    !.time_before = time_before,
                    !.time_after = time_after]
    IN  /\ IF Len(time_before) # Len(time_after)
           THEN /\ tt' = lists
                /\ calls' = <<>>
                /\ stdout' = <<>>
                /\ error' = "ValueError"
           ELSE LET df == [i \in 1..Len(time_before) |->
                              [Time_Before |-> time_before[i], Time_After |-> time_after[i]]]
                    test == ttest_rel(Column(df, "Time_Before"), Column(df, "Time_After"))
                IN  /\ tt' = [lists EXCEPT
                                !.names = @ \cup {"df", "t_stat", "p_value"},
                                !.df = df,
                                !.t_stat = test.statistic,
                                !.p_value = test.pvalue]
                    /\ calls' = <<TTestRelCall(Column(df, "Time_Before"),
                                                Column(df, "Time_After"))>>
                    /\ stdout' = << [text |-> "Paired T-test statistic: ",
                                     value |-> Formatted(".4f", test.statistic)],
                                    [text |-> "P-value: ",
                                     value |-> Formatted(".4e", test.pvalue)] >>
                    /\ error' = NoError
        /\ cell' = "paired"
        /\ UNCHANGED <<rng, given, est, fx, produced>>

-----------------------------------------------------------------------------
(* scipy.stats.fisher_exact.  The hypergeometric probabilities of the      *)
(* tables of the observed margins are kept in millionths of the largest    *)
(* one (that of the mode), each derived from its neighbour's by            *)
(*   pmf(x+1) / pmf(x) = (n1 - x)(n - x) / ((x + 1)(n2 - n + x + 1)),      *)
(* and compared up to PmfTol, as scipy compares them up to 1 + 1e-14.      *)

PmfScale == 1000000
PmfTol == 16

\* w * f / g, rounded
MulDiv(w, f, g) == (2 * w * f + g) \div (2 * g)

\* the weights of x+1 .. hi, given the weight w of x (no weight is negative:
\* the test has each weight computed before the next is derived from it)
RECURSIVE PmfAbove(_, _, _)
PmfAbove(m, x, w) ==
    IF w < 0 \/ x >= m.hi THEN <<>>
    ELSE LET up == MulDiv(MulDiv(w, m.n1 - x, x + 1), m.n - x, m.n2 - m.n + x + 1)
         IN  <<up>> \o PmfAbove(m, x + 1, up)

\* the weights of lo .. x-1, given the weight w of x
RECURSIVE PmfBelow(_, _, _)
PmfBelow(m, x, w) ==
    IF w < 0 \/ x <= m.lo THEN <<>>
    ELSE LET down == MulDiv(MulDiv(w, x, m.n1 - x + 1), m.n2 - m.n + x, m.n - x + 1)
         IN  PmfBelow(m, x - 1, down) \o <<down>>

Max(a, b) == IF a >= b THEN a ELSE b
Min(a, b) == IF a <= b THEN a ELSE b

\* the margins of a table, the support of its first cell, and the mode
Margins(c) ==
    LET n1 == c[1][1] + c[1][2]
        n2 == c[2][1] + c[2][2]
        n  == c[1][1] + c[2][1]
    IN  [n1 |-> n1, n2 |-> n2, n |-> n,
         lo |-> Max(0, n - n2), hi |-> Min(n, n1),
         mode |-> ((n + 1) * (n1 + 1)) \div (n1 + n2 + 2)]

\* the weights of lo .. hi; that of x is at index x - lo + 1
Pmf(m) == PmfBelow(m, m.mode, PmfScale) \o <<PmfScale>> \o PmfAbove(m, m.mode, PmfScale)

\* a table counts as far from the null hypothesis as the observed one only when
\* it is strictly less probable
StrictlyLessProbable(w, observed) == w < observed - PmfTol

\* a table is as far from the null hypothesis as the observed one when it is no
\* more probable
AsExtreme(w, observed) == w <= observed + PmfTol

\* the p-value of the one-sided test: the probabilities of the tables whose
\* first cell is no larger than the observed one, summed
OneSidedPValue(c) ==
    LET m == Margins(c)
        ws == Pmf(m)
    IN  Ratio(SumSeq(SubSeq(ws, 1, c[1][1] - m.lo + 1)), SumSeq(ws))

\* the two-sided p-value: 1 when the observed table is as probable as the mode,
\* else the probabilities of the tables as extreme as the observed one, summed
TwoSidedPValue(c) ==
    LET m == Margins(c)
        ws == Pmf(m)
        observed == ws[c[1][1] - m.lo + 1]
        total == SumSeq(ws)
        tail == SumSeq([i \in 1..Len(ws) |-> IF AsExtreme(ws[i], observed) THEN ws[i] ELSE 0])
    IN  IF PmfScale - observed <= PmfTol THEN Ratio(1, 1)
        ELSE Ratio(Min(tail, total), total)

\* an odds ratio computed without looking at the denominator: numpy divides,
\* warns of the division by zero and yields inf, or nan for 0/0
OddsRatioUnguarded(c) ==
    LET num == c[1][1] * c[2][2]
        den == c[2][1] * c[1][2]
    IN  [kind |-> IF den # 0 THEN "finite" ELSE IF num = 0 THEN "nan" ELSE "inf",
         num |-> num, den |-> den, divided_by |-> {den}]

\* if c[1, 0] > 0 and c[0, 1] > 0: c[0, 0] * c[1, 1] / (c[1, 0] * c[0, 1]), else np.inf;
\* divided_by holds the denominators of the divisions made
OddsRatio(c) ==
    IF c[2][1] > 0 /\ c[1][2] > 0
    THEN [kind |-> "finite", num |-> c[1][1] * c[2][2], den |-> c[2][1] * c[1][2],
          divided_by |-> {c[2][1] * c[1][2]}]
    ELSE [kind |-> "inf", num |-> 0, den |-> 1, divided_by |-> {}]

\* fisher_exact(table) of a 2x2 table of non-negative counts, two-sided.  A
\* table with an empty row or column has p-value 1 and odds ratio nan.
fisher_exact(c) ==
    IF \/ c[1][1] + c[1][2] = 0 \/ c[2][1] + c[2][2] = 0
       \/ c[1][1] + c[2][1] = 0 \/ c[1][2] + c[2][2] = 0
    THEN [statistic |-> [kind |-> "nan", num |-> 0, den |-> 1, divided_by |-> {}],
          pvalue |-> Ratio(1, 1)]
    ELSE [statistic |-> OddsRatio(c), pvalue |-> TwoSidedPValue(c)]

\* floor(num / den * 10^k), by long division
RECURSIVE FloorScaled(_, _, _)
FloorScaled(num, den, k) ==
    IF k = 0 THEN num \div den
    ELSE (num \div den) * (10 ^ k) + FloorScaled((num % den) * 10, den, k - 1)

\* a ratio printed with four decimals (':.4f'), in ten-thousandths
Round4(r) == (FloorScaled(r.num, r.den, 5) + 5) \div 10

\* the number of zeros that follow the decimal point of a ratio in (0, 1), plus 1
RECURSIVE LeadingExp(_, _)
LeadingExp(num, den) == IF num = 0 \/ num >= den THEN 0 ELSE 1 + LeadingExp(num * 10, den)

\* a ratio in [0, 1] printed with four significant digits (':.4'): the digits,
\* and the number of decimals the last of them stands at
Format4g(r) ==
    LET e == LeadingExp(r.num, r.den)
        digits == (FloorScaled(r.num, r.den, e + 4) + 5) \div 10
    IN  IF digits >= 10000 THEN [digits |-> digits \div 10, decimals |-> e + 2]
        ELSE [digits |-> digits, decimals |-> e + 3]

-----------------------------------------------------------------------------
(* The Fisher's exact test notebook *)

\* the largest count of a cell of the table
MaxCount == 2

Tables == {<< <<a, b>>, <<c, d>> >> : a, b, c, d \in 0..MaxCount}

\* the table of the notebook
CampaignTable == << <<30, 70>>, <<45, 55>> >>

\* a table of equal cells
EvenTable == << <<10, 10>>, <<10, 10>> >>

FxFresh ==
    [ names |-> {},
      contingency_table |-> <<>>,
      odds_ratio |-> [kind |-> "nan", num |-> 0, den |-> 1, divided_by |-> {}],
      p_value |-> Ratio(0, 1) ]

\* The Fisher's exact test cell
FisherExactCell ==
    LET contingency_table == given.contingency_table
        test == fisher_exact(contingency_table)
    IN  /\ fx' = [fx EXCEPT
                    !.names = @ \cup {"contingency_table", "odds_ratio", "p_value"},
                    !.contingency_table = contingency_table,
                    !.odds_ratio = test.statistic,
                    !.p_value = test.pvalue]
        /\ calls' = <<[fn |-> "fisher_exact", table |-> contingency_table]>>
        /\ stdout' = << [text |-> "Odds Ratio: , P-Value: ",
                         value |-> << IF test.statistic.kind = "finite"
                                      THEN Round4(test.statistic)
                                      ELSE test.statistic.kind,
                                      Format4g(test.pvalue) >>] >>
        /\ error' = NoError
        /\ cell' = "fisher"
        /\ UNCHANGED <<rng, given, est, tt, produced>>

-----------------------------------------------------------------------------
(* Specifications.  A session runs on data that its cells do not change:   *)
(* the file, the download, the seeded draw, the literals of the cells.     *)
(* The sessions of a specification vary the data of one cell at a time,    *)
(* the data of the others being the example data.                          *)

\* the seeded draw of the sessions that vary other data
ExampleSample == [i \in 1..SampleSize |-> IF i = 1 THEN 1 ELSE MaxDau]

ExampleData ==
    [ seeded_draws |-> <<ExampleSample>>,
      healthcare_csv |-> ExampleHealthcareFile,
      user_ratings |-> <<1, 2, 2>>,
      target_mean |-> 2,
      iris |-> IrisFrame(<<3, 4, 4>>, <<2, 3, 3>>),
      levene_p |-> Finite(42),
      time_before |-> <<60, 62, 65, 63, 66, 67, 68>>,
      time_after |-> <<55, 59, 61, 64, 63, 64, 65>>,
      contingency_table |-> CampaignTable ]

\* every seeded draw, and every healthcare file
EstimationData ==
    {[ExampleData EXCEPT !.seeded_draws = <<s>>] : s \in Samples}
    \cup {[ExampleData EXCEPT !.healthcare_csv = f] : f \in HealthcareFiles}

\* every sample of ratings with every target, five ratings with the targets
\* in their range, every two species' widths with
\* every p-value of Levene's test, every two lists of times
TTestData ==
    {[ExampleData EXCEPT !.user_ratings = a, !.target_mean = m] :
        a \in RatingSamples, m \in 1..MaxRating}
    \cup {[ExampleData EXCEPT !.user_ratings = FiveRatings, !.target_mean = m] : m \in 1..5}
    \cup {[ExampleData EXCEPT !.iris = IrisFrame(a, b), !.levene_p = p] :
        a \in TestSamples, b \in TestSamples, p \in LevenePValues}
    \cup {[ExampleData EXCEPT !.time_before = a, !.time_after = b] :
        a \in TestSamples, b \in TestSamples}

\* every small table, and the two tables the documents name
FisherData ==
    {[ExampleData EXCEPT !.contingency_table = c] : c \in Tables \cup {CampaignTable, EvenTable}}

\* the data of the two cells that run a two-sample t-test
TwoSampleData ==
    {[ExampleData EXCEPT !.healthcare_csv = f] : f \in HealthcareFiles}
    \cup {[ExampleData EXCEPT !.iris = IrisFrame(a, b), !.levene_p = p] :
        a \in TestSamples, b \in TestSamples, p \in LevenePValues}

FreshKernels ==
    /\ rng = FreshGenerator
    /\ est = EstFresh
    /\ tt = TtFresh
    /\ fx = FxFresh
    /\ stdout = <<>>
    /\ error = NoError
    /\ cell = "none"
    /\ calls = <<>>
    /\ produced = {}

\* a session of the estimation notebook
Init == given \in EstimationData /\ FreshKernels

Next ==
    \/ PointEstimationCell
    \/ IntervalEstimationCell
    \/ HypothesisTestingCell

Spec == Init /\ [][Next]_vars

\* a session of the t-test notebook
InitTTest == given \in TTestData /\ FreshKernels

NextTTest ==
    \/ OneSampleTTestCell
    \/ TwoSampleTTestCell
    \/ PairedTTestCell

SpecTTest == InitTTest /\ [][NextTTest]_vars

\* a session of the Fisher notebook
InitFisher == given \in FisherData /\ FreshKernels

NextFisher == FisherExactCell

SpecFisher == InitFisher /\ [][NextFisher]_vars

\* the two cells of the repository that run a two-sample t-test, each in the
\* kernel of its notebook
InitTwoSample == given \in TwoSampleData /\ FreshKernels

NextTwoSample ==
    \/ TwoSampleTTestCell
    \/ HypothesisTestingCell

SpecTwoSample == InitTwoSample /\ [][NextTwoSample]_vars

-----------------------------------------------------------------------------
(* Claims about the estimation notebook *)

\* the arithmetic mean of the sample the kernel holds
TrueMean == SeriesMean(est.dau_sample)

\* upper - lower of a produced interval, by its square: both ends lie one
\* margin of error from the same centre
WidthSq(ci) == Ratio(4 * ci[2].root.num, ci[2].root.den)

\* C3: once the point-estimation cell has run, sample_mean is the sum of the
\* sample's values divided by their count.  The code cuts the fraction off.
C3_PointEstimateIsSumOverCount ==
    "sample_mean" \in est.names => est.sample_mean * Len(est.dau_sample) = SumSeq(est.dau_sample)

\* C4: once the interval cell has completed, the interval it produced and the
\* floored interval it reported both contain the arithmetic mean of the sample.
C4_IntervalContainsMean ==
    "confidence_interval" \in est.names =>
        /\ OffsetLe(est.confidence_interval[1], TrueMean)
        /\ OffsetGe(est.confidence_interval[2], TrueMean)
        /\ est.floored_confidence_interval[1] * TrueMean.den <= TrueMean.num
        /\ TrueMean.num <= est.floored_confidence_interval[2] * TrueMean.den

\* C5 as stated: of two intervals produced for the same sample, the one of the
\* higher confidence level is strictly wider.
C5_HigherLevelStrictlyWider ==
    \A a, b \in produced :
        (a.sample = b.sample /\ RatLt(a.z_score, b.z_score)) =>
            RatLt(WidthSq(a.confidence_interval), WidthSq(b.confidence_interval))

\* C5 amended: of two intervals produced for the same sample, the one of the
\* higher confidence level is strictly wider when the sample's standard
\* deviation is not zero, and the floored interval reported is never narrower.
C5_HigherLevelWiderUnlessConstant ==
    \A a, b \in produced :
        (a.sample = b.sample /\ RatLt(a.z_score, b.z_score)) =>
            /\ a.std_dev.num # 0 =>
                  RatLt(WidthSq(a.confidence_interval), WidthSq(b.confidence_interval))
            /\ a.floored_confidence_interval[2] - a.floored_confidence_interval[1]
                  <= b.floored_confidence_interval[2] - b.floored_confidence_interval[1]

\* C5 witness: the interval cell has completed at two levels on a sample that varies
C5_TwoLevelsOnVaryingSample ==
    \E a, b \in produced :
        a.sample = b.sample /\ RatLt(a.z_score, b.z_score) /\ a.std_dev.num # 0

\* the reported interval of a sample at a level, computed from the sample alone
IntervalOfSample(sample, level) ==
    LET frame == DataFrame(sample, "daily_active_users")
    IN  Floored(ConfidenceInterval(
            AsTypeInt(SeriesMean(Column(frame, "daily_active_users"))),
            Ratio(norm_ppf_two_tailed(level).num * norm_ppf_two_tailed(level).num
                      * SeriesStd(sample).num,
                  norm_ppf_two_tailed(level).den * norm_ppf_two_tailed(level).den
                      * SeriesStd(sample).den * Len(sample))))

\* C13, as stated: no cell's result depends on a variable another cell wrote, and
\* no cell changes the data it is given.  The interval cell yields the interval
\* of the sample it draws, whatever ran before it; the frame the hypothesis
\* cell read is, after the cell, the frame as it was read.
C13_NoSharedOrMutatedState ==
    /\ cell = "interval" =>
          /\ error = NoError
          /\ est.floored_confidence_interval = IntervalOfSample(est.dau_sample, est.level)
    /\ cell = "hypothesis" => est.df = given.healthcare_csv

\* C16: the point cell and the interval cell work on one sample, the draw that
\* follows the seeding with 42: whatever ran before, the sample either cell has
\* bound, the sample of every interval produced, and the sample behind
\* sample_mean are that draw.
C16_BothCellsDrawTheSeededSample ==
    /\ "dau_sample" \in est.names => est.dau_sample = given.seeded_draws[1]
    /\ \A r \in produced : r.sample = given.seeded_draws[1]
    /\ "sample_mean" \in est.names =>
          est.sample_mean = SumSeq(given.seeded_draws[1]) \div SampleSize
    /\ cell \in {"point", "interval"} => rng = [seeded |-> TRUE, seed |-> Seed42, pos |-> 1]

\* the interval cell has completed twice and last, after the point cell and
\* the hypothesis cell
C16_IntervalAfterOtherCells ==
    /\ cell = "interval"
    /\ error = NoError
    /\ "t_stat" \in est.names
    /\ Cardinality(produced) >= 2
    /\ est.dau_sample[1] # est.dau_sample[SampleSize]

\* C17: in every order of the cells of the estimation notebook, the interval
\* cell completes only if the point cell has run before it, and ends in a
\* NameError otherwise; when it completes, the sample_mean the interval is
\* centred on and the std_dev it uses are those of one sample; the point cell
\* and the hypothesis cell complete in every kernel, a fresh one included.
C17_IntervalNeedsThePointCell ==
    /\ cell = "interval" =>
          /\ error = (IF "sample_mean" \in est.names THEN NoError ELSE "NameError")
          /\ error = NoError =>
                /\ est.sample_mean = SumSeq(est.dau_sample) \div Len(est.dau_sample)
                /\ est.std_dev = Ratio(DevSq(est.dau_sample),
                                        Len(est.dau_sample) * (Len(est.dau_sample) - 1))
                /\ est.confidence_interval =
                       <<Offset(est.sample_mean, -1, est.margin_of_error),
                         Offset(est.sample_mean, 1, est.margin_of_error)>>
    /\ cell \in {"point", "hypothesis"} => error = NoError
    /\ produced # {} => "sample_mean" \in est.names

\* the interval cell has completed on a sample of different values, the
\* hypothesis cell not having run
C17_IntervalCompleted ==
    /\ cell = "interval"
    /\ error = NoError
    /\ est.std_dev.num # 0
    /\ "t_stat" \notin est.names
    /\ Cardinality(produced) = 1

\* the rows of a frame
Rows(frame) == {frame[i] : i \in DOMAIN frame}

\* a date given, of a year before 2022: a date before '2022-01-01'
BeforeTheStart(r) == r["admission_date"] # MissingDate /\ r["admission_date"][1] < 2022

\* a date given, of 2022 or later: a date from '2022-01-01' on
FromTheStart(r) == r["admission_date"] # MissingDate /\ r["admission_date"][1] >= 2022

\* C18: after the hypothesis cell, df_before and df_after share no row and
\* hold hypertension rows only; a hypertension row is in df_before iff its
\* admission date is before '2022-01-01', and in df_after iff it is that date
\* or a later one; the hypertension rows whose date is given are each in
\* exactly one of the two.
C18_BeforeAndAfterPartitionTheRows ==
    cell = "hypothesis" =>
        /\ Rows(est.df_before) \cap Rows(est.df_after) = {}
        /\ \A r \in Rows(est.df_before) \cup Rows(est.df_after) :
              r["medical_condition"] = "Hypertension"
        /\ \A r \in Rows(est.df) :
              r["medical_condition"] = "Hypertension" =>
                  /\ r \in Rows(est.df_before) <=> BeforeTheStart(r)
                  /\ r \in Rows(est.df_after) <=> FromTheStart(r)
        /\ Len(est.df_before) + Len(est.df_after) =
              Cardinality({i \in DOMAIN est.df :
                              /\ est.df[i]["medical_condition"] = "Hypertension"
                              /\ est.df[i]["admission_date"] # MissingDate})

\* the hypothesis cell has run on a file with a hypertension row before the
\* start date, one of the start date, one of no date, and a row of another
\* condition
C18_RowsOfEveryKind ==
    /\ cell = "hypothesis"
    /\ est.df_before # <<>>
    /\ \E r \in Rows(est.df_after) : r["admission_date"] = <<2022, 1, 1>>
    /\ \E r \in Rows(est.df_hypertension) : r["admission_date"] = MissingDate
    /\ \E r \in Rows(est.df) : r["medical_condition"] # "Hypertension"

-----------------------------------------------------------------------------
(* Claims about the t-test notebook *)

\* C1: when the two-sample cell has run, it has executed exactly one t-test, on
\* the two species' widths: the pooled one (equal_var=True) if the p-value of
\* Levene's test is above 0.05, Welch's (equal_var=False) otherwise, a p-value
\* of exactly 0.05 included; the t_stat and p_value it binds and prints are
\* those of that test.
C1_LeveneSelectsTheTest ==
    cell = "two_sample" =>
        LET pooled == tt.p.kind = "finite" /\ tt.p.value > Alpha
            ran == SelectSeq(calls, LAMBDA c : c.fn = "ttest_ind")
            test == IF pooled THEN PooledTTest(tt.setosa, tt.versicolor)
                    ELSE WelchTTest(tt.setosa, tt.versicolor)
        IN  /\ Len(ran) = 1
            /\ ran[1] = [fn |-> "ttest_ind", a |-> tt.setosa, b |-> tt.versicolor,
                         equal_var |-> pooled]
            /\ tt.t_stat = test.statistic
            /\ tt.p_value = test.pvalue
            /\ stdout[5] = [text |-> IF pooled THEN "T-statistic: " ELSE "Welch's T-statistic: ",
                            value |-> Formatted("round4", test.statistic)]
            /\ stdout[6] = [text |-> "P-value: ", value |-> Formatted(".2e", test.pvalue)]

\* the two-sample cell has run on a p-value of exactly 0.05 and on samples
\* whose pooled test and Welch's test differ
C1_WelchAtTheBoundary ==
    /\ cell = "two_sample"
    /\ tt.p = Finite(Alpha)
    /\ tt.t_stat.kind = "finite"
    /\ tt.p_value # PooledTTest(tt.setosa, tt.versicolor).pvalue

\* the two-sample t-tests a cell has executed each follow, in that execution, a
\* variance check of the same two samples, and pass the decision of that check
\* as the equal-variance flag
EachTTestFollowsItsVarianceCheck ==
    \A i \in 1..Len(calls) :
        calls[i].fn = "ttest_ind" =>
            \E j \in 1..(i - 1) :
                /\ calls[j].fn = "levene"
                /\ calls[j].a = calls[i].a
                /\ calls[j].b = calls[i].b
                /\ calls[i].equal_var =
                       (calls[j].pvalue.kind = "finite" /\ calls[j].pvalue.value > Alpha)

\* C2, as stated: every two-sample t-test of the repository is preceded, in the
\* same run, by a variance check of the same two samples, and is passed the
\* decision of that check, never a fixed flag.
C2_EveryTwoSampleTestFollowsAVarianceCheck ==
    cell \in {"two_sample", "hypothesis"} => EachTTestFollowsItsVarianceCheck

\* C2, amended: the t-test of the two-sample cell is preceded by Levene's test
\* of the same two samples and is passed its decision; the t-test of the
\* hypothesis-testing cell is Welch's, with no variance check before it.
C2_VarianceCheckInTheTwoSampleCellOnly ==
    /\ cell = "two_sample" => EachTTestFollowsItsVarianceCheck
    /\ cell = "hypothesis" =>
          calls = << [fn |-> "ttest_ind",
                      a |-> Column(est.df_before, "bill_amount"),
                      b |-> Column(est.df_after, "bill_amount"),
                      equal_var |-> FALSE] >>

\* both cells have run, the two-sample cell last, on a p-value at or below 0.05 and
\* on two samples of two widths
C2_BothCellsHaveRun ==
    /\ cell = "two_sample"
    /\ "df_before" \in est.names
    /\ tt.p.kind = "finite" /\ tt.p.value <= Alpha
    /\ Len(tt.setosa) = 2 /\ Len(tt.versicolor) = 2
    /\ Len(calls) = 2

\* C6, as stated, for sequences of two pairs or more: the paired test of two
\* identical sequences ends in an error or a sentinel, never in the nan of a
\* division by zero.
C6_IdenticalSequencesGiveNoNaN ==
    (/\ cell = "paired"
     /\ tt.time_before = tt.time_after
     /\ Len(tt.time_before) >= 2)
        => (error # NoError \/ tt.t_stat.kind # "nan")

\* C7, as stated: the paired cell ends in an error when the two lists differ in
\* length or hold fewer than two pairs, and every paired test it computes is of
\* two sequences of one length, two at least.
C7_PairedTestRejectsShortOrUnequalInput ==
    cell = "paired" =>
        /\ (Len(tt.time_before) # Len(tt.time_after) \/ Len(tt.time_before) < 2)
              => error # NoError
        /\ \A i \in 1..Len(calls) :
              calls[i].fn = "ttest_rel" =>
                  Len(calls[i].a) = Len(calls[i].b) /\ Len(calls[i].a) >= 2

\* C11: the one-sample test of a sample of two values or more, not all equal,
\* whose mean is the hypothesized mean has statistic 0 and p-value 1 (the
\* two-tailed probability beyond 0) at n - 1 degrees of freedom; so it is for
\* [1, 2, 3, 4, 5] and 3, at 4 degrees of freedom.
C11_MeanAtTargetGivesZero ==
    (/\ cell = "one_sample"
     /\ Len(tt.user_ratings) >= 2
     /\ DevSq(tt.user_ratings) # 0
     /\ SumSeq(tt.user_ratings) = Len(tt.user_ratings) * tt.target_mean)
        => /\ tt.t_stat = [kind |-> "finite", sign |-> 0, num |-> 0,
                            den |-> DevSq(tt.user_ratings)]
           /\ tt.p_value.kind = "finite"
           /\ tt.p_value.num = 0
           /\ tt.p_value.df = Ratio(Len(tt.user_ratings) - 1, 1)
           /\ (tt.user_ratings = FiveRatings => tt.p_value.df = Ratio(4, 1))

\* the one-sample cell has run on [1, 2, 3, 4, 5] against 3
C11_FiveRatingsAtTheirMean ==
    /\ cell = "one_sample"
    /\ tt.user_ratings = FiveRatings
    /\ tt.target_mean = 3
    /\ tt.t_stat.kind = "finite"

\* C12: the two-sample test of a sample of two values or more, not all equal,
\* against itself, equal variances assumed, has statistic 0.
C12_SampleAgainstItselfGivesZero ==
    (/\ cell = "two_sample"
     /\ tt.setosa = tt.versicolor
     /\ Len(tt.setosa) >= 2
     /\ DevSq(tt.setosa) # 0
     /\ calls[2].equal_var)
        => /\ tt.t_stat.kind = "finite"
           /\ tt.t_stat.sign = 0
           /\ tt.t_stat.num = 0

\* the two-sample cell has run the pooled test on two equal samples of two
\* different widths
C12_PooledTestOfEqualSamples ==
    /\ cell = "two_sample"
    /\ tt.setosa = tt.versicolor
    /\ Len(tt.setosa) = 2
    /\ tt.setosa[1] # tt.setosa[2]
    /\ tt.p.kind = "finite" /\ tt.p.value > Alpha
    /\ calls[2] = TTestIndCall(tt.setosa, tt.versicolor, TRUE)

\* the largest k of lo .. hi with k * k <= n
RECURSIVE ISqrtBetween(_, _, _)
ISqrtBetween(n, lo, hi) ==
    IF lo = hi THEN lo
    ELSE LET mid == (lo + hi + 1) \div 2
         IN  IF mid * mid <= n THEN ISqrtBetween(n, mid, hi) ELSE ISqrtBetween(n, lo, mid - 1)

\* a finite statistic below 4.6 in size, rounded to four decimals, in
\* ten-thousandths
TenThousandths(t) ==
    LET n == FloorScaled(t.num, t.den, 8)
        k == ISqrtBetween(n, 0, 46340)
    IN  t.sign * (IF n - k * k <= k THEN k ELSE k + 1)

\* the lists of the paired cell
NotebookTimeBefore == <<60, 62, 65, 63, 66, 67, 68>>
NotebookTimeAfter == <<55, 59, 61, 64, 63, 64, 65>>

Negated(t) == [t EXCEPT !.sign = 0 - t.sign]

\* C15: the differences of the paired test are Time_Before - Time_After: when
\* the variance of the differences is not zero, the sign of the statistic is
\* the sign of sum(Time_Before - Time_After), and the test of the two columns
\* swapped has the statistic negated.
C15_DifferencesAreBeforeMinusAfter ==
    (/\ cell = "paired"
     /\ error = NoError
     /\ tt.t_stat.kind = "finite")
        => /\ tt.t_stat.sign = Sign(SumSeq(tt.time_before) - SumSeq(tt.time_after))
           /\ ttest_rel(tt.time_after, tt.time_before).statistic = Negated(tt.t_stat)

\* the paired cell has run on lists whose differences vary and sum to less
\* than zero
C15_AfterAboveBefore ==
    /\ cell = "paired"
    /\ error = NoError
    /\ tt.t_stat.kind = "finite"
    /\ tt.t_stat.sign = -1
    /\ SumSeq(tt.time_before) < SumSeq(tt.time_after)

-----------------------------------------------------------------------------
(* Claims about the Fisher notebook *)

\* C8: for a table [[a, b], [c, d]] with b * c = 0 the test divides by no zero:
\* the odds ratio is a sentinel, inf or nan, that no division produced.
C8_NoDivisionByZero ==
    (/\ cell = "fisher"
     /\ fx.contingency_table[1][2] * fx.contingency_table[2][1] = 0)
        => /\ fx.odds_ratio.kind \in {"inf", "nan"}
           /\ fx.odds_ratio.divided_by = {}
           /\ stdout[1].value[1] = fx.odds_ratio.kind

\* the cell has run on a table with b = 0 and a * d > 0
C8_ZeroOffDiagonal ==
    /\ cell = "fisher"
    /\ fx.contingency_table[1][2] = 0
    /\ fx.contingency_table[1][1] * fx.contingency_table[2][2] > 0
    /\ fx.contingency_table[2][1] > 0
    /\ fx.odds_ratio.kind = "inf"

\* C9: for the table [[30, 70], [45, 55]] the odds ratio is (30 * 55) / (70 * 45),
\* 0.5238 to four decimals, and the two-sided p-value is 0.0405 to four
\* decimals, below 0.05; the cell prints 0.5238 and 0.04053.
C9_CampaignTableResult ==
    (cell = "fisher" /\ fx.contingency_table = CampaignTable) =>
        /\ fx.odds_ratio.kind = "finite"
        /\ fx.odds_ratio.num * (70 * 45) = (30 * 55) * fx.odds_ratio.den
        /\ Round4(fx.odds_ratio) = 5238
        /\ Round4(fx.p_value) = 405
        /\ RatLt(fx.p_value, Ratio(5, 100))
        /\ stdout[1].value = <<5238, [digits |-> 4053, decimals |-> 5]>>

\* the cell has run on the table of the notebook
C9_CampaignTableTested ==
    /\ cell = "fisher"
    /\ fx.contingency_table = CampaignTable
    /\ "p_value" \in fx.names

\* C10: for the table [[10, 10], [10, 10]] the odds ratio is exactly 1 and the
\* two-sided p-value is exactly 1.
C10_EvenTableResult ==
    (cell = "fisher" /\ fx.contingency_table = EvenTable) =>
        /\ fx.odds_ratio.kind = "finite"
        /\ fx.odds_ratio.num = fx.odds_ratio.den
        /\ fx.p_value.num = fx.p_value.den
        /\ stdout[1].value = <<10000, [digits |-> 1000, decimals |-> 3]>>

\* the cell has run on the table of equal cells
C10_EvenTableTested ==
    /\ cell = "fisher"
    /\ fx.contingency_table = EvenTable
    /\ fx.odds_ratio.num = 100

=============================================================================
